---------------------------- MODULE Spec2Model ----------------------------
(***************************************************************************)
(* Moist-air state engine and process-composition model of the HVAC        *)
(* psychrometric calculator: the Property Solver Adapter                   *)
(* (psychrolib_wrapper.get_all_properties), AirState, the four Process     *)
(* Operators (hvac_processes) and the AHU / FCU System Models.             *)
(*                                                                         *)
(* Number representation.  Python floats are modelled by integers in       *)
(* fixed units:                                                            *)
(*   temperatures  degC                                                    *)
(*   rh            percent            (100 stands for the fraction 1.0)    *)
(*   bypass factor percent            (100 stands for 1.0)                 *)
(*   w             1e-6 kg/kg         (mg of water per kg of dry air)      *)
(*   h             J/kg                                                    *)
(*   v             1e-3 m3/kg                                              *)
(*   pressure      Pa                                                      *)
(*   mass flows    1e-9 kg/s          (so the code's 1e-9 epsilon is 1)    *)
(*   heat flows    1e-9 W             (so q / mass_flow is in J/kg)        *)
(* Float division is modelled by integer division.                         *)
(*                                                                         *)
(* Python's None is the empty tuple; a present number x is <<x>>.  An      *)
(* object reference is the index of the object in the heap; the reference  *)
(* None is 0.                                                              *)
(***************************************************************************)
EXTENDS Integers, Sequences, FiniteSets, TLC

VARIABLES heap,   \* every AirState object created so far, by reference
          sys,    \* the System Model instance (AHUModel or FCUModel)
          last    \* record of the last call made and of what it returned

vars == <<heap, sys, last>>

None == <<>>
Some(x) == <<x>>
Val(x) == x[1]
NoRef == 0

Min2(a, b) == IF a < b THEN a ELSE b
Max2(a, b) == IF a > b THEN a ELSE b

PropNames == {"tdb", "twb", "rh", "w", "h", "tdp", "v"}

(***************************************************************************)
(* psychrolib, the external property solver.  It is not part of the        *)
(* repository; the adapter only relies on each function either returning   *)
(* a number or raising ValueError outside its range of validity.  Each     *)
(* function F is represented by F_ok (it does not raise) and F (a          *)
(* deterministic integer stand-in for the value it returns).               *)
(***************************************************************************)
TInRange(t) == t >= -100 /\ t <= 200

SatHumRatio(t, p) ==
    LET w0 == IF t >= 0 THEN 4000 + 25 * t * t ELSE Max2(100, 4000 + 40 * t)
    IN  (w0 * 1013) \div (p \div 100)

GetHumRatioFromRelHum_ok(t, rh, p) == rh >= 0 /\ rh <= 100 /\ TInRange(t)
GetHumRatioFromRelHum(t, rh, p) == (rh * SatHumRatio(t, p)) \div 100

GetTWetBulbFromRelHum_ok(t, rh, p) == rh >= 0 /\ rh <= 100 /\ TInRange(t)
GetTWetBulbFromRelHum(t, rh, p) == t - (100 - rh) \div 10

GetTDewPointFromRelHum_ok(t, rh) == rh >= 0 /\ rh <= 100 /\ TInRange(t)
GetTDewPointFromRelHum(t, rh) == t - (100 - rh) \div 5

GetMoistAirEnthalpy_ok(t, w) == w >= 0
GetMoistAirEnthalpy(t, w) == 1006 * t + (5 * w) \div 2

GetMoistAirVolume_ok(t, w, p) == w >= 0
GetMoistAirVolume(t, w, p) == (287 * (t + 273) * 1000) \div p

GetRelHumFromHumRatio_ok(t, w, p) == w >= 0 /\ TInRange(t)
GetRelHumFromHumRatio(t, w, p) == (w * 100) \div SatHumRatio(t, p)

GetTWetBulbFromHumRatio_ok(t, w, p) == w >= 0 /\ TInRange(t)
GetTWetBulbFromHumRatio(t, w, p) ==
    Min2(t, t - (SatHumRatio(t, p) - w) \div 4000)

GetTDewPointFromHumRatio_ok(t, w, p) == w >= 0 /\ TInRange(t)
GetTDewPointFromHumRatio(t, w, p) ==
    Min2(t, t - (SatHumRatio(t, p) - w) \div 2000)

GetHumRatioFromTWetBulb_ok(t, twb, p) == twb <= t /\ TInRange(t) /\ TInRange(twb)
GetHumRatioFromTWetBulb(t, twb, p) ==
    Max2(0, SatHumRatio(twb, p) - 400 * (t - twb))

GetHumRatioFromTDewPoint_ok(tdp, p) == TInRange(tdp)
GetHumRatioFromTDewPoint(tdp, p) == SatHumRatio(tdp, p)

GetTDryBulbFromEnthalpyAndHumRatio_ok(h, w) == w >= 0
GetTDryBulbFromEnthalpyAndHumRatio(h, w) == (h - (5 * w) \div 2) \div 1006

(***************************************************************************)
(* Property Solver Adapter: psychrolib_wrapper.get_all_properties.         *)
(* kwargs is a function from the supplied property names to None or        *)
(* Some(number).  A result is Failure (Python None) or the dict of the     *)
(* seven properties and the pressure.  Any exception raised inside the     *)
(* try block (ValueError of the solver, TypeError on a None operand) ends  *)
(* in `return None'.                                                       *)
(***************************************************************************)
Failure == [ok |-> FALSE]

final_props(tdb, twb, rh, w, h, tdp, v, pressure_pa) ==
    [ok |-> TRUE, tdb |-> Some(tdb), twb |-> Some(twb), rh |-> Some(rh),
     w |-> Some(w), h |-> Some(h), tdp |-> Some(tdp), v |-> Some(v),
     pressure_pa |-> pressure_pa]

Solve_tdb_rh(p, tdb, rh) ==
    IF tdb = None \/ rh = None THEN Failure
    ELSE LET t == Val(tdb)
             r == Val(rh)
         IN  IF ~ ( /\ GetHumRatioFromRelHum_ok(t, r, p)
                    /\ GetTWetBulbFromRelHum_ok(t, r, p)
                    /\ GetTDewPointFromRelHum_ok(t, r) )
             THEN Failure
             ELSE LET _w == GetHumRatioFromRelHum(t, r, p)
                  IN  IF ~ ( GetMoistAirEnthalpy_ok(t, _w)
                             /\ GetMoistAirVolume_ok(t, _w, p) )
                      THEN Failure
                      ELSE final_props(t, GetTWetBulbFromRelHum(t, r, p), r, _w,
                                       GetMoistAirEnthalpy(t, _w),
                                       GetTDewPointFromRelHum(t, r),
                                       GetMoistAirVolume(t, _w, p), p)

Solve_tdb_w(p, tdb, w) ==
    IF tdb = None \/ w = None THEN Failure
    ELSE LET t == Val(tdb)
             x == Val(w)
         IN  IF ~ ( /\ GetRelHumFromHumRatio_ok(t, x, p)
                    /\ GetTWetBulbFromHumRatio_ok(t, x, p)
                    /\ GetTDewPointFromHumRatio_ok(t, x, p)
                    /\ GetMoistAirEnthalpy_ok(t, x)
                    /\ GetMoistAirVolume_ok(t, x, p) )
             THEN Failure
             ELSE final_props(t, GetTWetBulbFromHumRatio(t, x, p),
                              GetRelHumFromHumRatio(t, x, p), x,
                              GetMoistAirEnthalpy(t, x),
                              GetTDewPointFromHumRatio(t, x, p),
                              GetMoistAirVolume(t, x, p), p)

\* faulty variant: a wet bulb above the dry bulb is handed to the solver as it is
Solve_tdb_twb_unclamped(p, tdb, twb_in) ==
    IF tdb = None \/ twb_in = None THEN Failure
    ELSE LET t == Val(tdb)
             twb == Val(twb_in)
         IN  IF ~ GetHumRatioFromTWetBulb_ok(t, twb, p) THEN Failure
             ELSE LET _w == GetHumRatioFromTWetBulb(t, twb, p)
                  IN  IF ~ ( /\ GetRelHumFromHumRatio_ok(t, _w, p)
                             /\ GetTDewPointFromHumRatio_ok(t, _w, p)
                             /\ GetMoistAirEnthalpy_ok(t, _w)
                             /\ GetMoistAirVolume_ok(t, _w, p) )
                      THEN Failure
                      ELSE final_props(t, twb, GetRelHumFromHumRatio(t, _w, p),
                                       _w, GetMoistAirEnthalpy(t, _w),
                                       GetTDewPointFromHumRatio(t, _w, p),
                                       GetMoistAirVolume(t, _w, p), p)

Solve_tdb_twb(p, tdb, twb_in) ==
    IF tdb = None \/ twb_in = None THEN Failure
    ELSE LET t == Val(tdb)
             twb == IF Val(twb_in) > t THEN t ELSE Val(twb_in)
         IN  IF ~ GetHumRatioFromTWetBulb_ok(t, twb, p) THEN Failure
             ELSE LET _w == GetHumRatioFromTWetBulb(t, twb, p)
                  IN  IF ~ ( /\ GetRelHumFromHumRatio_ok(t, _w, p)
                             /\ GetTDewPointFromHumRatio_ok(t, _w, p)
                             /\ GetMoistAirEnthalpy_ok(t, _w)
                             /\ GetMoistAirVolume_ok(t, _w, p) )
                      THEN Failure
                      ELSE final_props(t, twb, GetRelHumFromHumRatio(t, _w, p),
                                       _w, GetMoistAirEnthalpy(t, _w),
                                       GetTDewPointFromHumRatio(t, _w, p),
                                       GetMoistAirVolume(t, _w, p), p)

Solve_tdb_tdp(p, tdb, tdp_in) ==
    IF tdb = None \/ tdp_in = None THEN Failure
    ELSE LET t == Val(tdb)
             tdp == IF Val(tdp_in) > t THEN t ELSE Val(tdp_in)
         IN  IF ~ GetHumRatioFromTDewPoint_ok(tdp, p) THEN Failure
             ELSE LET _w == GetHumRatioFromTDewPoint(tdp, p)
                  IN  IF ~ ( /\ GetRelHumFromHumRatio_ok(t, _w, p)
                             /\ GetTWetBulbFromHumRatio_ok(t, _w, p)
                             /\ GetMoistAirEnthalpy_ok(t, _w)
                             /\ GetMoistAirVolume_ok(t, _w, p) )
                      THEN Failure
                      ELSE final_props(t, GetTWetBulbFromHumRatio(t, _w, p),
                                       GetRelHumFromHumRatio(t, _w, p), _w,
                                       GetMoistAirEnthalpy(t, _w), tdp,
                                       GetMoistAirVolume(t, _w, p), p)

\* faulty variant: the enthalpy of the result is recomputed from the derived
\* dry bulb instead of being the enthalpy supplied
Solve_h_w_recomputed(p, h, w) ==
    IF h = None \/ w = None THEN Failure
    ELSE LET e == Val(h)
             x == Val(w)
         IN  IF ~ GetTDryBulbFromEnthalpyAndHumRatio_ok(e, x) THEN Failure
             ELSE LET _tdb == GetTDryBulbFromEnthalpyAndHumRatio(e, x)
                  IN  IF ~ ( /\ GetRelHumFromHumRatio_ok(_tdb, x, p)
                             /\ GetTWetBulbFromHumRatio_ok(_tdb, x, p)
                             /\ GetTDewPointFromHumRatio_ok(_tdb, x, p)
                             /\ GetMoistAirVolume_ok(_tdb, x, p) )
                      THEN Failure
                      ELSE final_props(_tdb, GetTWetBulbFromHumRatio(_tdb, x, p),
                                       GetRelHumFromHumRatio(_tdb, x, p), x,
                                       GetMoistAirEnthalpy(_tdb, x),
                                       GetTDewPointFromHumRatio(_tdb, x, p),
                                       GetMoistAirVolume(_tdb, x, p), p)

Solve_h_w(p, h, w) ==
    IF h = None \/ w = None THEN Failure
    ELSE LET e == Val(h)
             x == Val(w)
         IN  IF ~ GetTDryBulbFromEnthalpyAndHumRatio_ok(e, x) THEN Failure
             ELSE LET _tdb == GetTDryBulbFromEnthalpyAndHumRatio(e, x)
                  IN  IF ~ ( /\ GetRelHumFromHumRatio_ok(_tdb, x, p)
                             /\ GetTWetBulbFromHumRatio_ok(_tdb, x, p)
                             /\ GetTDewPointFromHumRatio_ok(_tdb, x, p)
                             /\ GetMoistAirVolume_ok(_tdb, x, p) )
                      THEN Failure
                      ELSE final_props(_tdb, GetTWetBulbFromHumRatio(_tdb, x, p),
                                       GetRelHumFromHumRatio(_tdb, x, p), x, e,
                                       GetTDewPointFromHumRatio(_tdb, x, p),
                                       GetMoistAirVolume(_tdb, x, p), p)

get_all_properties(pressure_pa, kwargs) ==
    LET inputs == DOMAIN kwargs
    IN  IF Cardinality(inputs) # 2 THEN Failure
        ELSE IF {"tdb", "rh"} \subseteq inputs
             THEN Solve_tdb_rh(pressure_pa, kwargs["tdb"], kwargs["rh"])
        ELSE IF {"tdb", "w"} \subseteq inputs
             THEN Solve_tdb_w(pressure_pa, kwargs["tdb"], kwargs["w"])
        ELSE IF {"tdb", "twb"} \subseteq inputs
             THEN Solve_tdb_twb(pressure_pa, kwargs["tdb"], kwargs["twb"])
        ELSE IF {"tdb", "tdp"} \subseteq inputs
             THEN Solve_tdb_tdp(pressure_pa, kwargs["tdb"], kwargs["tdp"])
        ELSE IF {"h", "w"} \subseteq inputs
             THEN Solve_h_w(pressure_pa, kwargs["h"], kwargs["w"])
        ELSE Failure

(***************************************************************************)
(* AirState.  Objects live in the heap; the methods take the heap and the  *)
(* object's reference and return the new heap, the return value and the    *)
(* number of adapter calls made.                                           *)
(***************************************************************************)
\* faulty variant: the constructor starts the numeric fields at 0 instead of None
AirState_fields_zero(label, pressure_pa) ==
    [label |-> label, pressure |-> pressure_pa, tdb |-> Some(0), twb |-> Some(0),
     rh |-> Some(0), w |-> Some(0), h |-> Some(0), tdp |-> Some(0), v |-> Some(0)]

AirState_fields(label, pressure_pa) ==
    [label |-> label, pressure |-> pressure_pa, tdb |-> None, twb |-> None,
     rh |-> None, w |-> None, h |-> None, tdp |-> None, v |-> None]

is_valid(o) == o.tdb # None /\ o.w # None /\ o.h # None

\* faulty variant: only the three fields is_valid reads are cleared
_invalidate_state_partial(o) ==
    [o EXCEPT !.tdb = None, !.w = None, !.h = None]

\* faulty variant: the pressure is put back to sea level with the seven
\* properties cleared
_invalidate_state_and_pressure(o) ==
    [o EXCEPT !.pressure = 101325, !.tdb = None, !.twb = None, !.rh = None,
              !.w = None, !.h = None, !.tdp = None, !.v = None]

_invalidate_state(o) ==
    [o EXCEPT !.tdb = None, !.twb = None, !.rh = None, !.w = None,
              !.h = None, !.tdp = None, !.v = None]

StoreProps(o, all_props) ==
    [o EXCEPT !.tdb = all_props.tdb, !.twb = all_props.twb, !.rh = all_props.rh,
              !.w = all_props.w, !.h = all_props.h, !.tdp = all_props.tdp,
              !.v = all_props.v]

\* the object `self' becomes `o'; update returns `self.is_valid()'
AirState_stored(hp, self, o) ==
    [heap |-> [hp EXCEPT ![self] = o], ret |-> is_valid(o), calls |-> 1]

\* faulty variant: a failed adapter call leaves the stored values in place
AirState_update_result_stale(hp, self, all_props) ==
    IF all_props.ok
    THEN AirState_stored(hp, self, StoreProps(hp[self], all_props))
    ELSE [heap |-> hp, ret |-> FALSE, calls |-> 1]

\* the part of update after the adapter call, which returned `all_props'
AirState_update_result(hp, self, all_props) ==
    IF all_props.ok
    THEN AirState_stored(hp, self, StoreProps(hp[self], all_props))
    ELSE [heap |-> [hp EXCEPT ![self] = _invalidate_state(@)],
          ret |-> FALSE, calls |-> 1]

\* faulty variant: a wrong argument count returns False but keeps the stored values
AirState_update_keep(hp, self, kwargs) ==
    IF DOMAIN kwargs = {}
    THEN [heap |-> hp, ret |-> is_valid(hp[self]), calls |-> 0]
    ELSE IF Cardinality(DOMAIN kwargs) # 2
    THEN [heap |-> hp, ret |-> FALSE, calls |-> 0]
    ELSE AirState_update_result(hp, self,
                                get_all_properties(hp[self].pressure, kwargs))

AirState_update(hp, self, kwargs) ==
    IF DOMAIN kwargs = {}
    THEN [heap |-> hp, ret |-> is_valid(hp[self]), calls |-> 0]
    ELSE IF Cardinality(DOMAIN kwargs) # 2
    THEN [heap |-> [hp EXCEPT ![self] = _invalidate_state(@)],
          ret |-> FALSE, calls |-> 0]
    ELSE AirState_update_result(hp, self,
                                get_all_properties(hp[self].pressure, kwargs))

\* the constructor's result: the heap after its update call and the new
\* object's reference
AirState_constructed(self, r) == [heap |-> r.heap, ret |-> self, calls |-> r.calls]

AirState_init(hp, pressure_pa, label, kwargs) ==
    AirState_constructed(
        Len(hp) + 1,
        AirState_update(Append(hp, AirState_fields(label, pressure_pa)),
                        Len(hp) + 1, kwargs))

(***************************************************************************)
(* Process Operators (hvac_processes).  Each takes the heap and references *)
(* to its input states and returns the new heap, the returned reference    *)
(* (NoRef for None) and the number of adapter calls made.                  *)
(***************************************************************************)
EPS == 1                    \* 1e-9 kg/s in the unit of mass flows
H_STEAM_J_KG == 2676000

OpResult(hp, ret, calls) == [heap |-> hp, ret |-> ret, calls |-> calls]

\* faulty variant: the new state is returned whether or not its update succeeded
NewStateResult_unchecked(c, u) == OpResult(u.heap, c.ret, c.calls + u.calls)

\* `x = AirState(pressure_pa=p, label=l)' followed by `x.update(h=.., w=..)':
\* the reference of the new state if the update succeeded, None otherwise
NewStateResult(c, u) ==
    OpResult(u.heap, IF u.ret THEN c.ret ELSE NoRef, c.calls + u.calls)

NewStateUpdate(kwargs, c) ==
    NewStateResult(c, AirState_update(c.heap, c.ret, kwargs))

NewStateFrom(hp, pressure_pa, label, kwargs) ==
    NewStateUpdate(kwargs, AirState_init(hp, pressure_pa, label, <<>>))

\* faulty variant: negative flows are not refused
mix_air_negative_flows(hp, state1, mass_flow1, state2, mass_flow2) ==
    IF ~ is_valid(hp[state1]) \/ ~ is_valid(hp[state2])
    THEN OpResult(hp, NoRef, 0)
    ELSE IF mass_flow1 + mass_flow2 <= EPS
    THEN OpResult(hp, IF mass_flow1 > mass_flow2 THEN state1 ELSE state2, 0)
    ELSE NewStateFrom(hp, hp[state1].pressure, "Mixed Air",
             [h |-> Some((mass_flow1 * Val(hp[state1].h)
                          + mass_flow2 * Val(hp[state2].h))
                         \div (mass_flow1 + mass_flow2)),
              w |-> Some((mass_flow1 * Val(hp[state1].w)
                          + mass_flow2 * Val(hp[state2].w))
                         \div (mass_flow1 + mass_flow2))])

\* faulty variant: the mixed state is solved at the second stream's pressure
mix_air_second_pressure(hp, state1, mass_flow1, state2, mass_flow2) ==
    IF ~ is_valid(hp[state1]) \/ ~ is_valid(hp[state2])
    THEN OpResult(hp, NoRef, 0)
    ELSE IF mass_flow1 < 0 \/ mass_flow2 < 0
    THEN OpResult(hp, NoRef, 0)
    ELSE IF mass_flow1 + mass_flow2 <= EPS
    THEN OpResult(hp, IF mass_flow1 > mass_flow2 THEN state1 ELSE state2, 0)
    ELSE NewStateFrom(hp, hp[state2].pressure, "Mixed Air",
             [h |-> Some((mass_flow1 * Val(hp[state1].h)
                          + mass_flow2 * Val(hp[state2].h))
                         \div (mass_flow1 + mass_flow2)),
              w |-> Some((mass_flow1 * Val(hp[state1].w)
                          + mass_flow2 * Val(hp[state2].w))
                         \div (mass_flow1 + mass_flow2))])

\* faulty variant: a total flow at or below 1e-9 is refused
mix_air_degenerate_fails(hp, state1, mass_flow1, state2, mass_flow2) ==
    IF ~ is_valid(hp[state1]) \/ ~ is_valid(hp[state2])
    THEN OpResult(hp, NoRef, 0)
    ELSE IF mass_flow1 < 0 \/ mass_flow2 < 0
    THEN OpResult(hp, NoRef, 0)
    ELSE IF mass_flow1 + mass_flow2 <= EPS
    THEN OpResult(hp, NoRef, 0)
    ELSE NewStateFrom(hp, hp[state1].pressure, "Mixed Air",
             [h |-> Some((mass_flow1 * Val(hp[state1].h)
                          + mass_flow2 * Val(hp[state2].h))
                         \div (mass_flow1 + mass_flow2)),
              w |-> Some((mass_flow1 * Val(hp[state1].w)
                          + mass_flow2 * Val(hp[state2].w))
                         \div (mass_flow1 + mass_flow2))])

mix_air(hp, state1, mass_flow1, state2, mass_flow2) ==
    IF ~ is_valid(hp[state1]) \/ ~ is_valid(hp[state2])
    THEN OpResult(hp, NoRef, 0)
    ELSE IF mass_flow1 < 0 \/ mass_flow2 < 0
    THEN OpResult(hp, NoRef, 0)
    ELSE LET total_mass_flow == mass_flow1 + mass_flow2
         IN  IF total_mass_flow <= EPS
             THEN OpResult(hp, IF mass_flow1 > mass_flow2 THEN state1 ELSE state2, 0)
             ELSE LET mix_w == (mass_flow1 * Val(hp[state1].w)
                                + mass_flow2 * Val(hp[state2].w)) \div total_mass_flow
                      mix_h == (mass_flow1 * Val(hp[state1].h)
                                + mass_flow2 * Val(hp[state2].h)) \div total_mass_flow
                      mix_pressure == hp[state1].pressure
                  IN  NewStateFrom(hp, mix_pressure, "Mixed Air",
                                   [h |-> Some(mix_h), w |-> Some(mix_w)])

\* faulty variant: zero heat is short-cut by handing the input state back
sensible_heat_shortcut(hp, state_in, q_sensible, mass_flow) ==
    IF ~ is_valid(hp[state_in]) THEN OpResult(hp, NoRef, 0)
    ELSE IF mass_flow <= EPS THEN OpResult(hp, NoRef, 0)
    ELSE IF q_sensible = 0 THEN OpResult(hp, state_in, 0)
    ELSE LET delta_h == q_sensible \div mass_flow
             h_out == Val(hp[state_in].h) + delta_h
             w_out == Val(hp[state_in].w)
         IN  NewStateFrom(hp, hp[state_in].pressure,
                          hp[state_in].label \o "_SensHeat",
                          [h |-> Some(h_out), w |-> Some(w_out)])

\* faulty variant: heat removal (negative q_sensible) is ignored
sensible_heat_heating_only(hp, state_in, q_sensible, mass_flow) ==
    IF ~ is_valid(hp[state_in]) THEN OpResult(hp, NoRef, 0)
    ELSE IF mass_flow <= EPS THEN OpResult(hp, NoRef, 0)
    ELSE NewStateFrom(hp, hp[state_in].pressure,
                      hp[state_in].label \o "_SensHeat",
                      [h |-> Some(Val(hp[state_in].h)
                                  + Max2(0, q_sensible) \div mass_flow),
                       w |-> Some(Val(hp[state_in].w))])

sensible_heat(hp, state_in, q_sensible, mass_flow) ==
    IF ~ is_valid(hp[state_in]) THEN OpResult(hp, NoRef, 0)
    ELSE IF mass_flow <= EPS THEN OpResult(hp, NoRef, 0)
    ELSE LET delta_h == q_sensible \div mass_flow
             h_out == Val(hp[state_in].h) + delta_h
             w_out == Val(hp[state_in].w)
         IN  NewStateFrom(hp, hp[state_in].pressure,
                          hp[state_in].label \o "_SensHeat",
                          [h |-> Some(h_out), w |-> Some(w_out)])

\* faulty variant: the bypass factor weighs the ADP state instead of the inlet
CoilOut_inverted(hp, state_in, adp_state, bypass_factor) ==
    [h |-> Some(Val(hp[state_in].h)
                + (bypass_factor * (Val(hp[adp_state].h) - Val(hp[state_in].h)))
                  \div 100),
     w |-> Some(Val(hp[state_in].w)
                + (bypass_factor * (Val(hp[adp_state].w) - Val(hp[state_in].w)))
                  \div 100)]

\* the coil's output given the heap and the reference of the ADP state
CoilOut(hp, state_in, adp_state, bypass_factor) ==
    LET w_out == Val(hp[adp_state].w)
                 + (bypass_factor * (Val(hp[state_in].w) - Val(hp[adp_state].w))) \div 100
        h_out == Val(hp[adp_state].h)
                 + (bypass_factor * (Val(hp[state_in].h) - Val(hp[adp_state].h))) \div 100
    IN  [h |-> Some(h_out), w |-> Some(w_out)]

\* the ADP reference state: AirState(pressure, "ADP_Internal") and its
\* update(tdb=adp_temp, rh=1.0)
ADPState(hp, state_in, adp_temp) ==
    NewStateFrom(hp, hp[state_in].pressure, "ADP_Internal",
                 [tdb |-> Some(adp_temp), rh |-> Some(100)])

CoilResult(adp_calls, r) == OpResult(r.heap, r.ret, adp_calls + r.calls)

\* the part of the coil after the ADP state `adp' has been computed
CoilFromADP(hp, state_in, bypass_factor, adp) ==
    IF adp.ret = NoRef THEN OpResult(adp.heap, NoRef, adp.calls)
    ELSE CoilResult(adp.calls,
                    NewStateFrom(adp.heap, hp[state_in].pressure,
                                 hp[state_in].label \o "_CoilOut",
                                 CoilOut(adp.heap, state_in, adp.ret, bypass_factor)))

\* faulty variant: the ADP reference state is computed before the input is checked
cooling_coil_adp_first(hp, state_in, mass_flow, adp_temp, bypass_factor) ==
    IF ~ is_valid(hp[state_in]) \/ ~ (0 <= bypass_factor /\ bypass_factor <= 100)
    THEN OpResult(ADPState(hp, state_in, adp_temp).heap, NoRef,
                  ADPState(hp, state_in, adp_temp).calls)
    ELSE CoilFromADP(hp, state_in, bypass_factor, ADPState(hp, state_in, adp_temp))

\* faulty variant: the result is written into the input state instead of a new one
cooling_coil_inplace(hp, state_in, mass_flow, adp_temp, bypass_factor) ==
    IF ~ is_valid(hp[state_in]) THEN OpResult(hp, NoRef, 0)
    ELSE IF ~ (0 <= bypass_factor /\ bypass_factor <= 100)
    THEN OpResult(hp, NoRef, 0)
    ELSE LET adp == ADPState(hp, state_in, adp_temp)
         IN  IF adp.ret = NoRef THEN OpResult(adp.heap, NoRef, adp.calls)
             ELSE LET u == AirState_update(adp.heap, state_in,
                              CoilOut(adp.heap, state_in, adp.ret, bypass_factor))
                  IN  OpResult(u.heap, IF u.ret THEN state_in ELSE NoRef,
                               adp.calls + u.calls)

cooling_coil_simplified(hp, state_in, mass_flow, adp_temp, bypass_factor) ==
    IF ~ is_valid(hp[state_in]) THEN OpResult(hp, NoRef, 0)
    ELSE IF ~ (0 <= bypass_factor /\ bypass_factor <= 100)
    THEN OpResult(hp, NoRef, 0)
    ELSE CoilFromADP(hp, state_in, bypass_factor, ADPState(hp, state_in, adp_temp))

\* faulty variant: zero added water still builds a new output state
steam_humidify_always_new(hp, state_in, mass_flow, water_mass_flow_added) ==
    IF ~ is_valid(hp[state_in]) THEN OpResult(hp, NoRef, 0)
    ELSE IF mass_flow <= EPS THEN OpResult(hp, NoRef, 0)
    ELSE NewStateFrom(hp, hp[state_in].pressure,
                      hp[state_in].label \o "_Humidified",
                      [h |-> Some(Val(hp[state_in].h)
                                  + (Max2(0, water_mass_flow_added) * H_STEAM_J_KG)
                                    \div mass_flow),
                       w |-> Some(Val(hp[state_in].w)
                                  + (Max2(0, water_mass_flow_added) * 1000000)
                                    \div mass_flow)])

\* faulty variant: the water is added without the enthalpy of the steam
steam_humidify_no_enthalpy(hp, state_in, mass_flow, water_mass_flow_added) ==
    IF ~ is_valid(hp[state_in]) THEN OpResult(hp, NoRef, 0)
    ELSE IF mass_flow <= EPS THEN OpResult(hp, NoRef, 0)
    ELSE IF water_mass_flow_added <= 0 THEN OpResult(hp, state_in, 0)
    ELSE NewStateFrom(hp, hp[state_in].pressure,
                      hp[state_in].label \o "_Humidified",
                      [h |-> hp[state_in].h,
                       w |-> Some(Val(hp[state_in].w)
                                  + (water_mass_flow_added * 1000000)
                                    \div mass_flow)])

steam_humidify(hp, state_in, mass_flow, water_mass_flow_added) ==
    IF ~ is_valid(hp[state_in]) THEN OpResult(hp, NoRef, 0)
    ELSE IF mass_flow <= EPS THEN OpResult(hp, NoRef, 0)
    ELSE LET water == IF water_mass_flow_added < 0 THEN 0 ELSE water_mass_flow_added
         IN  IF water = 0 THEN OpResult(hp, state_in, 0)
             ELSE LET w_added == (water * 1000000) \div mass_flow
                      w_out == Val(hp[state_in].w) + w_added
                      h_added_per_kg_air == (water * H_STEAM_J_KG) \div mass_flow
                      h_out == Val(hp[state_in].h) + h_added_per_kg_air
                  IN  NewStateFrom(hp, hp[state_in].pressure,
                                   hp[state_in].label \o "_Humidified",
                                   [h |-> Some(h_out), w |-> Some(w_out)])


(***************************************************************************)
(* System Models.  A model is [kind, pressure, states]; states maps each   *)
(* step name to the reference of an AirState or to NoRef (None).  The      *)
(* methods take the heap and the table and return the new heap and table,  *)
(* what the call returned ("True", "False", or the name of the exception   *)
(* it raised), and, for the checks, the name of the step at which a        *)
(* Process Operator failed ("precondition" when the run was refused before *)
(* the first step, "none" when no step failed) and the adapter calls made. *)
(***************************************************************************)
AHU_Order == <<"OA", "RA", "MA", "CC_Out", "HC_Out", "HUM_Out", "SA">>
FCU_Order == <<"Entering", "Coil_Out", "Supply">>

AHU_reset_states ==
    [OA |-> NoRef, RA |-> NoRef, MA |-> NoRef, CC_Out |-> NoRef,
     HC_Out |-> NoRef, HUM_Out |-> NoRef, SA |-> NoRef]

FCU_reset_states ==
    [Entering |-> NoRef, Coil_Out |-> NoRef, Supply |-> NoRef]

AHUModel(pressure_pa) ==
    [kind |-> "AHU", pressure |-> pressure_pa, states |-> AHU_reset_states,
     inlet_ok |-> FALSE, ncalls |-> 0]

FCUModel(pressure_pa) ==
    [kind |-> "FCU", pressure |-> pressure_pa, states |-> FCU_reset_states,
     inlet_ok |-> FALSE, ncalls |-> 0]

RunResult(hp, st, ret, fail, calls) ==
    [heap |-> hp, states |-> st, ret |-> ret, fail |-> fail, calls |-> calls]

\* faulty variant: the inlet states are stored before they are checked and
\* stay in the table when the call returns False
AHU_store_inlets_unchecked(st0, oa, ra) ==
    RunResult(ra.heap, [st0 EXCEPT !.OA = oa.ret, !.RA = ra.ret],
              IF is_valid(ra.heap[oa.ret]) /\ is_valid(ra.heap[ra.ret])
              THEN "True" ELSE "False",
              "none", oa.calls + ra.calls)

\* the part of set_inlet_conditions after both inlet states are built;
\* `st0' is the table the inlets are stored into
AHU_store_inlets(st0, oa, ra) ==
    IF is_valid(ra.heap[oa.ret]) /\ is_valid(ra.heap[ra.ret])
    THEN RunResult(ra.heap, [st0 EXCEPT !.OA = oa.ret, !.RA = ra.ret],
                   "True", "none", oa.calls + ra.calls)
    ELSE RunResult(ra.heap, AHU_reset_states, "False", "none", oa.calls + ra.calls)

\* `ra_state = AirState(pressure_pa=self.pressure, label="RA", ...)'
AHU_build_RA(st0, pressure, ra_tdb, ra_rh, oa) ==
    AHU_store_inlets(st0, oa,
        AirState_init(oa.heap, pressure, "RA",
                      [tdb |-> Some(ra_tdb), rh |-> Some(ra_rh)]))

\* faulty variant: the table is reset only when the inlets turn out invalid
AHU_set_inlet_no_reset(hp, pressure, st, oa_tdb, oa_rh, ra_tdb, ra_rh) ==
    AHU_build_RA(st, pressure, ra_tdb, ra_rh,
        AirState_init(hp, pressure, "OA", [tdb |-> Some(oa_tdb), rh |-> Some(oa_rh)]))

AHU_set_inlet_conditions(hp, pressure, st, oa_tdb, oa_rh, ra_tdb, ra_rh) ==
    AHU_build_RA(AHU_reset_states, pressure, ra_tdb, ra_rh,
        AirState_init(hp, pressure, "OA", [tdb |-> Some(oa_tdb), rh |-> Some(oa_rh)]))

\* `if total_flow <= 1e-9: ... return False'
\* faulty variant: only a negative total flow is refused
AHU_flow_negative(total_flow) == total_flow < 0

AHU_flow_too_small(total_flow) == total_flow <= EPS

\* a step has run: `ret' is "ok" when the run goes on with `cur' as its
\* current_state
StepResult(hp, st, ret, fail, calls, cur) ==
    [heap |-> hp, states |-> st, ret |-> ret, fail |-> fail, calls |-> calls,
     cur |-> cur]

\* a Process Operator returned `r' for the slot `slot': the slot is assigned,
\* and `if not self.states[slot]: return False'
StepAssigned(st, slot, calls, r) ==
    IF r.ret = NoRef
    THEN StepResult(r.heap, [st EXCEPT ![slot] = r.ret], "False", slot,
                    calls + r.calls, NoRef)
    ELSE StepResult(r.heap, [st EXCEPT ![slot] = r.ret], "ok", "none",
                    calls + r.calls, r.ret)

\* step 3, reheat (cooling cycle) or heating coil (heating cycle): the two
\* cycles hold the same code for steps 3 to 5
AHU_heat_step(hp, st, current_state, q_watts, total_flow, calls) ==
    IF q_watts > 0
    THEN StepAssigned(st, "HC_Out", calls,
                      sensible_heat(hp, current_state, q_watts, total_flow))
    ELSE StepResult(hp, [st EXCEPT !.HC_Out = current_state], "ok", "none", calls,
                    current_state)

\* faulty variant: after steam humidification the run goes on from the state
\* before the humidifier
AHU_humidify_step_not_advanced(hp, st, current_state, total_flow, humidifier_type, humidifier_param, calls) ==
    IF humidifier_type = "Steam" /\ humidifier_param > 0
    THEN [StepAssigned(st, "HUM_Out", calls,
                       steam_humidify(hp, current_state, total_flow, humidifier_param))
             EXCEPT !.cur = IF @ = NoRef THEN NoRef ELSE current_state]
    ELSE IF humidifier_type = "Adiabatic" /\ humidifier_param > 0
    THEN StepResult(hp, st, "AttributeError", "none", calls, NoRef)
    ELSE StepResult(hp, [st EXCEPT !.HUM_Out = current_state], "ok", "none", calls,
                    current_state)

\* step 4, humidification.  hvac_processes defines no adiabatic_humidify, so
\* the "Adiabatic" branch raises AttributeError before HUM_Out is assigned.
AHU_humidify_step(hp, st, current_state, total_flow, humidifier_type, humidifier_param, calls) ==
    IF humidifier_type = "Steam" /\ humidifier_param > 0
    THEN StepAssigned(st, "HUM_Out", calls,
                      steam_humidify(hp, current_state, total_flow, humidifier_param))
    ELSE IF humidifier_type = "Adiabatic" /\ humidifier_param > 0
    THEN StepResult(hp, st, "AttributeError", "none", calls, NoRef)
    ELSE StepResult(hp, [st EXCEPT !.HUM_Out = current_state], "ok", "none", calls,
                    current_state)

\* the last step has run: `return True' unless it failed
LastStep(s) ==
    RunResult(s.heap, s.states, IF s.ret = "ok" THEN "True" ELSE s.ret, s.fail, s.calls)

\* faulty variant: without fan heat the SA slot is left as it was
AHU_fan_step_no_passthrough(hp, st, current_state, fan_heat_watts, total_flow, calls) ==
    IF fan_heat_watts > 0
    THEN LastStep(StepAssigned(st, "SA", calls,
                      sensible_heat(hp, current_state, fan_heat_watts, total_flow)))
    ELSE RunResult(hp, st, "True", "none", calls)

\* step 5, supply fan heat gain, and the final `return True'
AHU_fan_step(hp, st, current_state, fan_heat_watts, total_flow, calls) ==
    IF fan_heat_watts > 0
    THEN LastStep(StepAssigned(st, "SA", calls,
                      sensible_heat(hp, current_state, fan_heat_watts, total_flow)))
    ELSE RunResult(hp, [st EXCEPT !.SA = current_state], "True", "none", calls)

\* step 5 after step 4 returned `s4'
AHU_after_humidify(fan_heat_watts, total_flow, s4) ==
    IF s4.ret # "ok"
    THEN RunResult(s4.heap, s4.states, s4.ret, s4.fail, s4.calls)
    ELSE AHU_fan_step(s4.heap, s4.states, s4.cur, fan_heat_watts, total_flow, s4.calls)

\* steps 4 and 5 after step 3 returned `s3'
AHU_after_heat(total_flow, humidifier_type, humidifier_param, fan_heat_watts, s3) ==
    IF s3.ret # "ok"
    THEN RunResult(s3.heap, s3.states, s3.ret, s3.fail, s3.calls)
    ELSE AHU_after_humidify(fan_heat_watts, total_flow,
             AHU_humidify_step(s3.heap, s3.states, s3.cur, total_flow,
                               humidifier_type, humidifier_param, s3.calls))

\* steps 3, 4 and 5 in sequence, from the state `current_state'
AHU_steps_3_to_5(hp, st, current_state, q_watts, total_flow, humidifier_type, humidifier_param, fan_heat_watts, calls) ==
    AHU_after_heat(total_flow, humidifier_type, humidifier_param, fan_heat_watts,
                   AHU_heat_step(hp, st, current_state, q_watts, total_flow, calls))

\* cooling cycle, steps 3 to 5 after the coil step returned `s2'
AHU_after_coil(total_flow, reheat_q_watts, humidifier_type, humidifier_param, fan_heat_watts, s2) ==
    IF s2.ret # "ok"
    THEN RunResult(s2.heap, s2.states, s2.ret, s2.fail, s2.calls)
    ELSE AHU_steps_3_to_5(s2.heap, s2.states, s2.cur, reheat_q_watts, total_flow,
                          humidifier_type, humidifier_param, fan_heat_watts, s2.calls)

\* cooling cycle, steps 2 to 5 after the mixing step returned `s1'
AHU_cooling_after_mix(total_flow, cc_adp, cc_bf, reheat_q_watts, humidifier_type, humidifier_param, fan_heat_watts, s1) ==
    IF s1.ret # "ok"
    THEN RunResult(s1.heap, s1.states, s1.ret, s1.fail, s1.calls)
    ELSE AHU_after_coil(total_flow, reheat_q_watts, humidifier_type,
                        humidifier_param, fan_heat_watts,
             StepAssigned(s1.states, "CC_Out", s1.calls,
                 cooling_coil_simplified(s1.heap, s1.cur, total_flow, cc_adp, cc_bf)))

AHU_run_cooling_cycle(hp, st, oa_mass_flow, ra_mass_flow, cc_adp, cc_bf, reheat_q_watts, humidifier_type, humidifier_param, fan_heat_watts) ==
    IF st.OA = NoRef \/ st.RA = NoRef
    THEN RunResult(hp, st, "False", "precondition", 0)
    ELSE IF AHU_flow_too_small(oa_mass_flow + ra_mass_flow)
    THEN RunResult(hp, st, "False", "precondition", 0)
    ELSE AHU_cooling_after_mix(oa_mass_flow + ra_mass_flow, cc_adp, cc_bf,
             reheat_q_watts, humidifier_type, humidifier_param, fan_heat_watts,
             StepAssigned(st, "MA", 0,
                 mix_air(hp, st.OA, oa_mass_flow, st.RA, ra_mass_flow)))

\* heating cycle, steps 2 to 5 after the mixing step returned `s1': the
\* cooling coil is bypassed, `self.states["CC_Out"] = current_state'
AHU_heating_after_mix(total_flow, heating_q_sensible, humidifier_type, humidifier_param, fan_heat_watts, s1) ==
    IF s1.ret # "ok"
    THEN RunResult(s1.heap, s1.states, s1.ret, s1.fail, s1.calls)
    ELSE AHU_steps_3_to_5(s1.heap, [s1.states EXCEPT !.CC_Out = s1.cur], s1.cur,
                          heating_q_sensible, total_flow, humidifier_type,
                          humidifier_param, fan_heat_watts, s1.calls)

AHU_run_heating_cycle(hp, st, oa_mass_flow, ra_mass_flow, heating_q_sensible, humidifier_type, humidifier_param, fan_heat_watts) ==
    IF st.OA = NoRef \/ st.RA = NoRef
    THEN RunResult(hp, st, "False", "precondition", 0)
    ELSE IF AHU_flow_too_small(oa_mass_flow + ra_mass_flow)
    THEN RunResult(hp, st, "False", "precondition", 0)
    ELSE AHU_heating_after_mix(oa_mass_flow + ra_mass_flow, heating_q_sensible,
             humidifier_type, humidifier_param, fan_heat_watts,
             StepAssigned(st, "MA", 0,
                 mix_air(hp, st.OA, oa_mass_flow, st.RA, ra_mass_flow)))

\* the part of set_entering_air after the entering state `e' is built
FCU_store_entering(e) ==
    IF is_valid(e.heap[e.ret])
    THEN RunResult(e.heap, [FCU_reset_states EXCEPT !.Entering = e.ret],
                   "True", "none", e.calls)
    ELSE RunResult(e.heap, FCU_reset_states, "False", "none", e.calls)

FCU_set_entering_air(hp, pressure, st, tdb, rh, label) ==
    FCU_store_entering(
        AirState_init(hp, pressure, label, [tdb |-> Some(tdb), rh |-> Some(rh)]))

\* `if mass_flow <= 1e-9: ... return False'
FCU_flow_too_small(mass_flow) == mass_flow <= EPS

\* step 2 of both FCU cycles, fan heat, and the final `return True'
FCU_fan_step(hp, st, fan_heat_watts, mass_flow, calls) ==
    LastStep(StepAssigned(st, "Supply", calls,
        IF fan_heat_watts > 0
        THEN sensible_heat(hp, st.Coil_Out, fan_heat_watts, mass_flow)
        ELSE OpResult(hp, st.Coil_Out, 0)))

\* step 2 after step 1 returned `s1'
FCU_after_coil(fan_heat_watts, mass_flow, s1) ==
    IF s1.ret # "ok"
    THEN RunResult(s1.heap, s1.states, s1.ret, s1.fail, s1.calls)
    ELSE FCU_fan_step(s1.heap, s1.states, fan_heat_watts, mass_flow, s1.calls)

FCU_run_cooling_cycle(hp, st, mass_flow, cc_adp, cc_bf, fan_heat_watts) ==
    IF st.Entering = NoRef THEN RunResult(hp, st, "False", "precondition", 0)
    ELSE IF FCU_flow_too_small(mass_flow)
    THEN RunResult(hp, st, "False", "precondition", 0)
    ELSE FCU_after_coil(fan_heat_watts, mass_flow,
             StepAssigned(st, "Coil_Out", 0,
                 cooling_coil_simplified(hp, st.Entering, mass_flow, cc_adp, cc_bf)))

\* faulty variant: a refused run clears the results of the run before
FCU_run_heating_cycle_resets(hp, st, mass_flow, heating_q_sensible, fan_heat_watts) ==
    IF st.Entering = NoRef THEN RunResult(hp, st, "False", "precondition", 0)
    ELSE IF FCU_flow_too_small(mass_flow)
    THEN RunResult(hp, [FCU_reset_states EXCEPT !.Entering = st.Entering],
                   "False", "precondition", 0)
    ELSE FCU_after_coil(fan_heat_watts, mass_flow,
             StepAssigned(st, "Coil_Out", 0,
                 IF heating_q_sensible > 0
                 THEN sensible_heat(hp, st.Entering, heating_q_sensible, mass_flow)
                 ELSE OpResult(hp, st.Entering, 0)))

FCU_run_heating_cycle(hp, st, mass_flow, heating_q_sensible, fan_heat_watts) ==
    IF st.Entering = NoRef THEN RunResult(hp, st, "False", "precondition", 0)
    ELSE IF FCU_flow_too_small(mass_flow)
    THEN RunResult(hp, st, "False", "precondition", 0)
    ELSE FCU_after_coil(fan_heat_watts, mass_flow,
             StepAssigned(st, "Coil_Out", 0,
                 IF heating_q_sensible > 0
                 THEN sensible_heat(hp, st.Entering, heating_q_sensible, mass_flow)
                 ELSE OpResult(hp, st.Entering, 0)))


(***************************************************************************)
(* The consumer interface of the System Models.  AHUModel and FCUModel     *)
(* carry the same code for it; only the canonical order differs.           *)
(***************************************************************************)
Abs(x) == IF x < 0 THEN -x ELSE x

\* self.states.get(label)
get_state(st, label) == IF label \in DOMAIN st THEN st[label] ELSE NoRef

\* `if start_state and end_state and start_state.is_valid() and end_state.is_valid()'
LineEndsUsable(hp, start_state, end_state) ==
    /\ start_state # NoRef
    /\ end_state # NoRef
    /\ is_valid(hp[start_state])
    /\ is_valid(hp[end_state])

\* faulty variant: either tolerance alone suppresses the line
LineBetween_either(hp, start_state, end_state) ==
    IF LineEndsUsable(hp, start_state, end_state)
    THEN IF \/ Abs(Val(hp[start_state].h) - Val(hp[end_state].h)) < 10
            \/ Abs(Val(hp[start_state].w) - Val(hp[end_state].w)) < 1
         THEN None
         ELSE <<start_state, end_state>>
    ELSE None

\* the result of get_process_line for the two looked-up states: None, or
\* the list [start_state, end_state]; w is in 1e-6 kg/kg, so 1 stands for 1e-6
LineBetween(hp, start_state, end_state) ==
    IF LineEndsUsable(hp, start_state, end_state)
    THEN IF /\ Abs(Val(hp[start_state].h) - Val(hp[end_state].h)) < 10
            /\ Abs(Val(hp[start_state].w) - Val(hp[end_state].w)) < 1
         THEN None
         ELSE <<start_state, end_state>>
    ELSE None

get_process_line(hp, st, start_label, end_label) ==
    LineBetween(hp, get_state(st, start_label), get_state(st, end_label))

\* `self.states.get(key) and self.states[key].is_valid()'
SlotListed(hp, st, key) == get_state(st, key) # NoRef /\ is_valid(hp[st[key]])

RECURSIVE ListedFrom(_, _, _, _)
\* the list comprehension of get_all_states, from position i of `order' on
ListedFrom(hp, st, order, i) ==
    IF i > Len(order)
    THEN <<>>
    ELSE (IF SlotListed(hp, st, order[i]) THEN <<st[order[i]]>> ELSE <<>>)
         \o ListedFrom(hp, st, order, i + 1)

\* faulty variant: the comprehension without its filter
get_all_states_unfiltered(hp, st, order) ==
    [i \in 1..Len(order) |-> get_state(st, order[i])]

get_all_states(hp, st, order) == ListedFrom(hp, st, order, 1)

(***************************************************************************)
(* Bounds and the inputs the calls are drawn from.                         *)
(***************************************************************************)
MaxObjs == 2        \* AirState objects a behaviour of SpecAirState creates

Pressures == {101325, 90000}

\* keyword arguments given to AirState(...) and AirState.update(...):
\* none, one, each supported pair, a pair the solver rejects, twb above tdb,
\* an unsupported pair, three properties, a None operand
KwargsSet ==
    { <<>>,
      [tdb |-> Some(25)],
      [tdb |-> Some(25), rh |-> Some(50)],
      [tdb |-> Some(25), rh |-> Some(150)],
      [tdb |-> Some(30), w |-> Some(10000)],
      [tdb |-> Some(25), twb |-> Some(30)],
      [tdb |-> Some(25), tdp |-> Some(15)],
      [h |-> Some(50000), w |-> Some(10000)],
      [h |-> Some(50000), w |-> Some(-5)],
      [twb |-> Some(18), rh |-> Some(50)],
      [tdb |-> Some(25), rh |-> Some(50), w |-> Some(10000)],
      [tdb |-> None, rh |-> Some(50)] }

\* keyword arguments given to get_all_properties called directly: those
\* above, a wet bulb and a dew point below, at and above the dry bulb
AdapterKwargs ==
    KwargsSet \cup
    { [tdb |-> Some(25), twb |-> Some(18)],
      [tdb |-> Some(25), twb |-> Some(25)],
      [tdb |-> Some(25), tdp |-> Some(25)],
      [tdb |-> Some(25), tdp |-> Some(30)],
      [tdb |-> Some(250), tdp |-> Some(300)] }

NoModel == [kind |-> "none"]

\* `last' holds the call in progress until its caller has taken the result;
\* the program is single-threaded, so the next call starts only after that
NoCall == [op |-> "none"]
Idle == last = NoCall

Return ==
    /\ ~ Idle
    /\ last' = NoCall
    /\ UNCHANGED <<heap, sys>>

\* a constructor call returned `r': the heap is as it left it
Constructed(kwargs, r) ==
    /\ heap' = r.heap
    /\ last' = [op |-> "AirState", self |-> r.ret, kwargs |-> kwargs,
                calls |-> r.calls, pre |-> heap]

\* the call described by `info' returned `r': the heap is as it left it
Called(info, r) ==
    /\ heap' = r.heap
    /\ last' = info @@ [ret |-> r.ret, calls |-> r.calls, pre |-> heap]

(***************************************************************************)
(* SpecAirState: AirState objects are constructed and updated directly.    *)
(***************************************************************************)
InitAirState ==
    /\ heap = <<>>
    /\ sys = NoModel
    /\ last = NoCall

Construct(pressure_pa, kwargs) ==
    /\ Idle
    /\ Len(heap) < MaxObjs
    /\ Constructed(kwargs, AirState_init(heap, pressure_pa, "State", kwargs))
    /\ UNCHANGED sys

Update(self, kwargs) ==
    /\ Idle
    /\ Called([op |-> "update", self |-> self, kwargs |-> kwargs],
              AirState_update(heap, self, kwargs))
    /\ UNCHANGED sys

\* the adapter called by itself: it reads no state and changes none
GetAllProperties(pressure_pa, kwargs) ==
    /\ Idle
    /\ last' = [op |-> "get_all_properties", pressure_pa |-> pressure_pa,
                kwargs |-> kwargs, ret |-> get_all_properties(pressure_pa, kwargs)]
    /\ UNCHANGED <<heap, sys>>

NextAirState ==
    \/ \E p \in Pressures, kw \in KwargsSet : Construct(p, kw)
    \/ \E self \in DOMAIN heap, kw \in KwargsSet : Update(self, kw)
    \/ \E p \in Pressures, kw \in AdapterKwargs : GetAllProperties(p, kw)
    \/ Return

SpecAirState == InitAirState /\ [][NextAirState]_vars

AllPresent(o) == \A k \in PropNames : o[k] # None
AllAbsent(o) == \A k \in PropNames : o[k] = None
NumProps(kwargs) == Cardinality(DOMAIN kwargs)

SupportedPairs ==
    { {"tdb", "rh"}, {"tdb", "w"}, {"tdb", "twb"}, {"tdb", "tdp"}, {"h", "w"} }

\* the solver computes the pair without raising
SolverSucceeds(p, kwargs) ==
    LET d == DOMAIN kwargs
    IN  CASE d = {"tdb", "rh"}  -> Solve_tdb_rh(p, kwargs["tdb"], kwargs["rh"]).ok
          [] d = {"tdb", "w"}   -> Solve_tdb_w(p, kwargs["tdb"], kwargs["w"]).ok
          [] d = {"tdb", "twb"} -> Solve_tdb_twb(p, kwargs["tdb"], kwargs["twb"]).ok
          [] d = {"tdb", "tdp"} -> Solve_tdb_tdp(p, kwargs["tdb"], kwargs["tdp"]).ok
          [] d = {"h", "w"}     -> Solve_h_w(p, kwargs["h"], kwargs["w"]).ok
          [] OTHER              -> FALSE

\* C5: after any sequence of constructions and updates, the seven properties
\* of every AirState are all present or all absent, and is_valid() is true
\* exactly when they are all present.
C5_AllOrNone ==
    \A i \in DOMAIN heap :
        /\ AllPresent(heap[i]) \/ AllAbsent(heap[i])
        /\ is_valid(heap[i]) <=> AllPresent(heap[i])

\* a two-property update whose solver call failed has just cleared a state
\* that was valid before the call
C5_Witness ==
    /\ last.op = "update"
    /\ NumProps(last.kwargs) = 2
    /\ last.calls = 1
    /\ ~ last.ret
    /\ is_valid(last.pre[last.self])
    /\ AllAbsent(heap[last.self])

\* C6 as stated: update with any number of properties other than two returns
\* failure and leaves all seven fields absent.
C6_Original ==
    (last.op = "update" /\ NumProps(last.kwargs) # 2)
        => (~ last.ret /\ AllAbsent(heap[last.self]))

\* C6 as amended: update with one, three or more properties returns failure
\* and leaves all seven fields absent; update with no property at all changes
\* nothing and returns the current validity of the state.
C6_WrongCount ==
    last.op = "update" =>
        /\ NumProps(last.kwargs) \notin {0, 2}
              => (~ last.ret /\ AllAbsent(heap[last.self]))
        /\ NumProps(last.kwargs) = 0
              => /\ heap = last.pre
                 /\ last.ret = is_valid(last.pre[last.self])

\* a three-property update has just cleared a state that was valid
C6_Witness ==
    /\ last.op = "update"
    /\ NumProps(last.kwargs) = 3
    /\ is_valid(last.pre[last.self])
    /\ ~ last.ret
    /\ AllAbsent(heap[last.self])

\* C7: right after construction an AirState is valid iff exactly two
\* properties forming one of the five supported pairs were given and the
\* solver succeeded; otherwise all seven fields are absent.
C7_ConstructValid ==
    last.op = "AirState" =>
        LET o == heap[last.self]
        IN  /\ is_valid(o) <=>
                  /\ NumProps(last.kwargs) = 2
                  /\ DOMAIN last.kwargs \in SupportedPairs
                  /\ SolverSucceeds(o.pressure, last.kwargs)
            /\ ~ is_valid(o) => AllAbsent(o)

\* an AirState has just been constructed from three properties and is invalid
C7_Witness ==
    /\ last.op = "AirState"
    /\ DOMAIN last.kwargs = {"tdb", "rh", "w"}
    /\ ~ is_valid(heap[last.self])
    /\ AllAbsent(heap[last.self])

(***************************************************************************)
(* SpecOps: AirStates are constructed and the Process Operators are        *)
(* called directly on any states created so far, valid or not.             *)
(***************************************************************************)
MaxOpsObjs == 3     \* AirState objects a behaviour of SpecOps creates

\* pressure and keyword arguments of the states the operators are given:
\* two valid states at the same pressure, one at another pressure, and one
\* the solver rejects (invalid)
OpsStates ==
    { <<101325, [tdb |-> Some(35), rh |-> Some(70)]>>,
      <<101325, [tdb |-> Some(24), rh |-> Some(50)]>>,
      <<90000, [tdb |-> Some(24), rh |-> Some(50)]>>,
      <<101325, [tdb |-> Some(25), rh |-> Some(150)]>> }

MixFlows == {-1, 0, 1, 100, 300}
\* air mass flows: negative, exactly 1e-9, and a usable one
AirFlows == {-5, 1, 300}
HeatFlows == {-600000, 0, 600000, 90000000}
AdpTemps == {11, 250}
BypassFactors == {0, 12, 100, 120}
WaterFlows == {-2, 0, 3, 400}

OperatorNames ==
    {"mix_air", "sensible_heat", "cooling_coil_simplified", "steam_humidify"}

InitOps ==
    /\ heap = <<>>
    /\ sys = NoModel
    /\ last = NoCall

OpsConstruct(pressure_pa, kwargs) ==
    /\ Idle
    /\ Len(heap) + 1 <= MaxOpsObjs
    /\ Constructed(kwargs, AirState_init(heap, pressure_pa, "State", kwargs))
    /\ UNCHANGED sys

MixAir(state1, mass_flow1, state2, mass_flow2) ==
    /\ Idle
    /\ Len(heap) + 1 <= MaxOpsObjs
    /\ Called([op |-> "mix_air", ins |-> <<state1, state2>>,
               flows |-> <<mass_flow1, mass_flow2>>],
              mix_air(heap, state1, mass_flow1, state2, mass_flow2))
    /\ UNCHANGED sys

SensibleHeat(state_in, q_sensible, mass_flow) ==
    /\ Idle
    /\ Len(heap) + 1 <= MaxOpsObjs
    /\ Called([op |-> "sensible_heat", ins |-> <<state_in>>, q |-> q_sensible,
               flows |-> <<mass_flow>>],
              sensible_heat(heap, state_in, q_sensible, mass_flow))
    /\ UNCHANGED sys

CoolingCoil(state_in, mass_flow, adp_temp, bypass_factor) ==
    /\ Idle
    /\ Len(heap) + 2 <= MaxOpsObjs
    /\ Called([op |-> "cooling_coil_simplified", ins |-> <<state_in>>,
               flows |-> <<mass_flow>>, adp |-> adp_temp, bf |-> bypass_factor],
              cooling_coil_simplified(heap, state_in, mass_flow, adp_temp,
                                      bypass_factor))
    /\ UNCHANGED sys

SteamHumidify(state_in, mass_flow, water_mass_flow_added) ==
    /\ Idle
    /\ Len(heap) + 1 <= MaxOpsObjs
    /\ Called([op |-> "steam_humidify", ins |-> <<state_in>>,
               flows |-> <<mass_flow>>, water |-> water_mass_flow_added],
              steam_humidify(heap, state_in, mass_flow, water_mass_flow_added))
    /\ UNCHANGED sys

NextOps ==
    \/ \E a \in OpsStates : OpsConstruct(a[1], a[2])
    \/ \E s1, s2 \in DOMAIN heap, f1, f2 \in MixFlows : MixAir(s1, f1, s2, f2)
    \/ \E s \in DOMAIN heap, q \in HeatFlows, m \in AirFlows : SensibleHeat(s, q, m)
    \/ \E s \in DOMAIN heap, m \in AirFlows, t \in AdpTemps, bf \in BypassFactors :
          CoolingCoil(s, m, t, bf)
    \/ \E s \in DOMAIN heap, m \in AirFlows, x \in WaterFlows : SteamHumidify(s, m, x)
    \/ Return

SpecOps == InitOps /\ [][NextOps]_vars

IsOperatorCall == last.op \in OperatorNames
\* the objects the call in progress created
NewObjects == (Len(last.pre) + 1)..Len(heap)

\* the returned state did not exist before the call
FreshResult ==
    /\ last.ret \notin DOMAIN last.pre
    /\ \A k \in DOMAIN last.ins : last.ret # last.ins[k]

C9_InputsUnchanged ==
    IsOperatorCall =>
        /\ \A k \in DOMAIN last.ins : heap[last.ins[k]] = last.pre[last.ins[k]]
        /\ \A i \in DOMAIN last.pre : heap[i] = last.pre[i]

\* the cooling coil has just produced a state whose w differs from its
\* input's, and the input still holds what it held
C9_Witness ==
    /\ last.op = "cooling_coil_simplified"
    /\ last.ret # NoRef
    /\ heap[last.ret].w # heap[last.ins[1]].w
    /\ heap[last.ins[1]] = last.pre[last.ins[1]]

\* C10: a Process Operator given an invalid input state returns failure
\* without any solver call and without creating a state, whatever its other
\* parameters.
C10_InvalidInputFailsFast ==
    ( /\ IsOperatorCall
      /\ \E k \in DOMAIN last.ins : ~ is_valid(last.pre[last.ins[k]]) )
        => /\ last.ret = NoRef
           /\ last.calls = 0
           /\ heap = last.pre

\* mix_air has just been refused a valid first and an invalid second state,
\* with flows that would otherwise mix
C10_Witness ==
    /\ last.op = "mix_air"
    /\ is_valid(last.pre[last.ins[1]])
    /\ ~ is_valid(last.pre[last.ins[2]])
    /\ last.flows = <<100, 300>>
    /\ last.ret = NoRef
    /\ last.calls = 0

\* the first and second input state of the operator call, as they were when
\* it was made, and the state it returned
In1 == last.pre[last.ins[1]]
In2 == last.pre[last.ins[2]]
Out == heap[last.ret]
InputsValid == \A k \in DOMAIN last.ins : is_valid(last.pre[last.ins[k]])
SameWH(a, b) == a.w = b.w /\ a.h = b.h

\* C11: every non-failure result of a Process Operator is a valid AirState
\* with all seven properties present, and whenever the solver call for the
\* output state or for the coil's ADP state fails (leaving the state the
\* operator built invalid) the operator returns failure.
C11_ResultsValid ==
    IsOperatorCall =>
        /\ last.ret # NoRef =>
              /\ last.ret \in DOMAIN heap
              /\ is_valid(Out)
              /\ AllPresent(Out)
        /\ (\E i \in NewObjects : ~ is_valid(heap[i])) => last.ret = NoRef

\* sensible_heat on a valid state whose output the solver rejected
C11_Witness ==
    /\ last.op = "sensible_heat"
    /\ InputsValid
    /\ last.calls = 1
    /\ \E i \in NewObjects : AllAbsent(heap[i])
    /\ last.ret = NoRef

BypassOutOfRange ==
    last.op = "cooling_coil_simplified" /\ (last.bf < 0 \/ last.bf > 100)
NegativeFlow == \E k \in DOMAIN last.flows : last.flows[k] < 0

\* C12 as stated: an operator given a bypass factor outside [0,1] or a
\* negative air mass flow (either flow of mix_air, mass_flow of sensible_heat,
\* cooling_coil_simplified and steam_humidify) fails before any solver call.
C12_Original ==
    (IsOperatorCall /\ (BypassOutOfRange \/ NegativeFlow))
        => (last.ret = NoRef /\ last.calls = 0)

\* C12: a bypass factor outside [0,1], a negative flow of mix_air and a
\* negative mass_flow of sensible_heat or steam_humidify make the operator
\* fail before any solver call, leaving the heap as it was.
C12_ParameterRange ==
    (IsOperatorCall /\ (BypassOutOfRange
                        \/ (last.op # "cooling_coil_simplified" /\ NegativeFlow)))
        => (last.ret = NoRef /\ last.calls = 0 /\ heap = last.pre)

\* mix_air of two valid states refused for one negative flow although the
\* total flow is positive
C12_Witness ==
    /\ last.op = "mix_air"
    /\ InputsValid
    /\ NegativeFlow
    /\ last.flows[1] + last.flows[2] > EPS
    /\ last.ret = NoRef
    /\ last.calls = 0

\* C13: a successful mix_air of valid states with non-negative flows and
\* total flow above 1e-9 returns a state whose w and h are the flow-weighted
\* averages (to within one unit of the integer division that stands for the
\* float division), at the first stream's pressure.
C13_MixConserves ==
    (/\ last.op = "mix_air"
     /\ last.ret # NoRef
     /\ last.flows[1] >= 0 /\ last.flows[2] >= 0
     /\ last.flows[1] + last.flows[2] > EPS)
        => LET total == last.flows[1] + last.flows[2]
               water == last.flows[1] * Val(In1.w) + last.flows[2] * Val(In2.w)
               energy == last.flows[1] * Val(In1.h) + last.flows[2] * Val(In2.h)
           IN  /\ 0 <= water - total * Val(Out.w)
               /\ water - total * Val(Out.w) < total
               /\ 0 <= energy - total * Val(Out.h)
               /\ energy - total * Val(Out.h) < total
               /\ Out.pressure = In1.pressure

\* two streams of different pressure and humidity, both flowing, are mixed
C13_Witness ==
    /\ last.op = "mix_air"
    /\ last.ret # NoRef
    /\ last.flows[1] > EPS /\ last.flows[2] > EPS
    /\ In1.pressure # In2.pressure
    /\ In1.w # In2.w
    /\ Out.pressure = In1.pressure
    /\ Out.w # In1.w /\ Out.w # In2.w

\* C14: mixing is commutative: for valid states and flows >= 0, also both
\* zero or negligible, mix_air(A,fA,B,fB) and mix_air(B,fB,A,fA) both fail
\* or return states with the same w and h.
C14_Commutative ==
    (/\ last.op = "mix_air"
     /\ InputsValid
     /\ last.flows[1] >= 0 /\ last.flows[2] >= 0)
        => LET r == mix_air(last.pre, last.ins[2], last.flows[2],
                            last.ins[1], last.flows[1])
           IN  /\ (last.ret = NoRef) <=> (r.ret = NoRef)
               /\ last.ret # NoRef => SameWH(Out, r.heap[r.ret])

\* C15: for valid states A, B and every flow fA >= 0, mix_air(A, fA, B, 0)
\* returns a state whose w and h equal those of A.
C15_ZeroSecondFlow ==
    (/\ last.op = "mix_air"
     /\ InputsValid
     /\ last.flows[1] >= 0 /\ last.flows[2] = 0)
        => (last.ret # NoRef /\ SameWH(Out, In1))

\* C16: a successful sensible_heat returns a state with the input's w, with
\* h = state_in.h + q / mass_flow and at the input's pressure, for q of
\* either sign; with mass_flow <= 1e-9 it returns failure.
C16_SensibleHeat ==
    last.op = "sensible_heat" =>
        /\ last.flows[1] <= EPS => last.ret = NoRef
        /\ last.ret # NoRef =>
              /\ Out.w = In1.w
              /\ Val(Out.h) = Val(In1.h) + last.q \div last.flows[1]
              /\ Out.pressure = In1.pressure

\* heat is removed: the returned state has the same w and a lower h
C16_Witness ==
    /\ last.op = "sensible_heat"
    /\ last.ret # NoRef
    /\ last.q < 0
    /\ Out.w = In1.w
    /\ Val(Out.h) < Val(In1.h)

\* the saturated state at the coil's apparatus dew point and the input's
\* pressure, as the solver computes it
SaturatedADP == Solve_tdb_rh(In1.pressure, Some(last.adp), Some(100))

\* C17 as stated: for every valid state_in and every adp_temp, the coil with
\* bypass factor 1 returns a state with the w and h of state_in, and with
\* bypass factor 0 one with the w and h of the saturated state at adp_temp.
C17_Original ==
    (last.op = "cooling_coil_simplified" /\ InputsValid /\ last.bf \in {0, 100})
        => /\ last.ret # NoRef
           /\ last.bf = 100 => SameWH(Out, In1)
           /\ last.bf = 0 => SameWH(Out, SaturatedADP)

\* C17: when the solver computes the saturated state at adp_temp, the coil
\* with bypass factor 1 returns a state with the w and h of state_in and with
\* bypass factor 0 one with the w and h of that saturated state; when it
\* does not, the coil returns failure for either bypass factor.
C17_BypassLimits ==
    (last.op = "cooling_coil_simplified" /\ InputsValid /\ last.bf \in {0, 100})
        => IF SaturatedADP.ok
           THEN /\ last.ret # NoRef
                /\ last.bf = 100 => SameWH(Out, In1)
                /\ last.bf = 0 => SameWH(Out, SaturatedADP)
           ELSE last.ret = NoRef

\* bypass factor 0: the air leaves at the ADP state, drier than it entered
C17_Witness ==
    /\ last.op = "cooling_coil_simplified"
    /\ InputsValid
    /\ last.bf = 0
    /\ last.ret # NoRef
    /\ SameWH(Out, SaturatedADP)
    /\ Val(Out.w) < Val(In1.w)

\* C18 as stated: for every valid state_in and every air mass_flow,
\* steam_humidify with zero or negative added water returns the very object
\* state_in, creating no state and returning no failure.
C18_Original ==
    (last.op = "steam_humidify" /\ InputsValid /\ last.water <= 0)
        => (last.ret = last.ins[1] /\ heap = last.pre)

\* C18: with zero or negative added water steam_humidify returns the very
\* object state_in and creates no state when mass_flow > 1e-9, and returns
\* failure when mass_flow <= 1e-9.
C18_ZeroWater ==
    (last.op = "steam_humidify" /\ InputsValid /\ last.water <= 0)
        => /\ heap = last.pre
           /\ last.calls = 0
           /\ last.ret = IF last.flows[1] > EPS THEN last.ins[1] ELSE NoRef

\* negative added water, clamped: the input object itself comes back
C18_Witness ==
    /\ last.op = "steam_humidify"
    /\ InputsValid
    /\ last.water < 0
    /\ last.flows[1] > EPS
    /\ last.ret = last.ins[1]
    /\ heap = last.pre

(***************************************************************************)
(* SpecSys: one System Model instance, an AHUModel or an FCUModel, is      *)
(* given inlet conditions and run, in any order and any number of times.   *)
(* sys.inlet_ok records what the most recent set-inlet call returned       *)
(* (FALSE before the first one) and sys.ncalls the number of calls made    *)
(* on the instance so far.                                                 *)
(***************************************************************************)
MaxCalls == 3       \* method calls a behaviour of SpecSys makes on the model

\* inlet conditions <<tdb, rh>>: valid ones and ones the solver rejects
OAConds == { <<35, 70>>, <<250, 50>> }
RAConds == { <<24, 50>>, <<24, 120>> }

\* <<oa_mass_flow, ra_mass_flow>>: total at or below 1e-9, a negative flow
\* with a positive total, and flows that mix
AHUFlows == { <<0, -1>>, <<0, 1>>, <<100, -1>>, <<100, 1>> }
\* <<cc_adp, cc_bf>>: a coil that computes, a bypass factor above 1, an
\* apparatus dew point outside the solver's range
CoilParams == { <<11, 12>>, <<11, 120>>, <<250, 12>> }
\* heat flows: none, one the solver can follow, one that leaves its range
SysHeat == {0, 600000, 90000000}
\* <<humidifier_type, humidifier_param>>
Humidifiers ==
    { <<"None", 0>>, <<"Steam", 0>>, <<"Steam", 3>>, <<"Steam", 600>>,
      <<"Adiabatic", 3>> }
FCUFlows == {1, 300}

\* A run reads its arguments step by step and stops at the first step that
\* fails, so the arguments of the steps after it are never read: the runs
\* are given every combination of the values above in which the arguments
\* behind the first failing one are at their defaults (no heat, no
\* humidifier, no fan heat).
StopsAtFlows(a) == a.flows # <<100, 1>>
StopsAtCoil(a) == a.coil # <<11, 12>>
StopsAtHeat(a) == a.heat = 90000000
StopsAtHum(a) == a.hum \in { <<"Steam", 600>>, <<"Adiabatic", 3>> }

AHUCoolingArgs ==
    { a \in [flows : AHUFlows, coil : CoilParams, heat : SysHeat,
             hum : Humidifiers, fan : SysHeat] :
        /\ StopsAtFlows(a) => a.coil = <<11, 12>>
        /\ (StopsAtFlows(a) \/ StopsAtCoil(a)) => a.heat = 0
        /\ (StopsAtFlows(a) \/ StopsAtCoil(a) \/ StopsAtHeat(a))
              => a.hum = <<"None", 0>>
        /\ (StopsAtFlows(a) \/ StopsAtCoil(a) \/ StopsAtHeat(a) \/ StopsAtHum(a))
              => a.fan = 0 }

AHUHeatingArgs ==
    { a \in [flows : AHUFlows, heat : SysHeat, hum : Humidifiers, fan : SysHeat] :
        /\ StopsAtFlows(a) => a.heat = 0
        /\ (StopsAtFlows(a) \/ StopsAtHeat(a)) => a.hum = <<"None", 0>>
        /\ (StopsAtFlows(a) \/ StopsAtHeat(a) \/ StopsAtHum(a)) => a.fan = 0 }

RunOps == {"run_cooling_cycle", "run_heating_cycle"}
SysOrder == IF sys.kind = "AHU" THEN AHU_Order ELSE FCU_Order

\* <<start_label, end_label>> passed to get_process_line: lines the chart
\* asks for (mixing, reheat, heating), the fan's line, and for the FCU a line
\* from a step to itself
AHULinePairs ==
    { <<"OA", "MA">>, <<"CC_Out", "HC_Out">>, <<"MA", "HC_Out">>, <<"HUM_Out", "SA">> }
FCULinePairs ==
    { <<"Entering", "Coil_Out">>, <<"Coil_Out", "Supply">>, <<"Supply", "Supply">> }
LinePairs == IF sys.kind = "AHU" THEN AHULinePairs ELSE FCULinePairs

InitSys ==
    /\ heap = <<>>
    /\ sys \in {AHUModel(p) : p \in Pressures} \cup {FCUModel(p) : p \in Pressures}
    /\ last = NoCall

\* a System Model method returned `r': the heap and the table are as it
\* left them; `sets_inlet' tells a set-inlet call from a run
SysCalled(op, args, total_flow, sets_inlet, r) ==
    /\ heap' = r.heap
    /\ sys' = [sys EXCEPT !.states = r.states,
                          !.inlet_ok = IF sets_inlet THEN r.ret = "True" ELSE @,
                          !.ncalls = @ + 1]
    /\ last' = [op |-> op, args |-> args, total_flow |-> total_flow,
                ret |-> r.ret, fail |-> r.fail, calls |-> r.calls,
                pre |-> heap, pre_states |-> sys.states]

SetInletConditions(oa_tdb, oa_rh, ra_tdb, ra_rh) ==
    /\ Idle
    /\ sys.kind = "AHU"
    /\ sys.ncalls < MaxCalls
    /\ SysCalled("set_inlet", <<oa_tdb, oa_rh, ra_tdb, ra_rh>>, 0, TRUE,
                 AHU_set_inlet_conditions(heap, sys.pressure, sys.states,
                                          oa_tdb, oa_rh, ra_tdb, ra_rh))

AHURunCooling(oa_mass_flow, ra_mass_flow, cc_adp, cc_bf, reheat_q_watts, humidifier_type, humidifier_param, fan_heat_watts) ==
    /\ Idle
    /\ sys.kind = "AHU"
    /\ sys.ncalls < MaxCalls
    /\ SysCalled("run_cooling_cycle",
                 [heat |-> reheat_q_watts, hum_type |-> humidifier_type,
                  hum_param |-> humidifier_param, fan |-> fan_heat_watts,
                  adp |-> cc_adp, bf |-> cc_bf,
                  flows |-> <<oa_mass_flow, ra_mass_flow>>],
                 oa_mass_flow + ra_mass_flow, FALSE,
                 AHU_run_cooling_cycle(heap, sys.states, oa_mass_flow, ra_mass_flow,
                                       cc_adp, cc_bf, reheat_q_watts, humidifier_type,
                                       humidifier_param, fan_heat_watts))

AHURunHeating(oa_mass_flow, ra_mass_flow, heating_q_sensible, humidifier_type, humidifier_param, fan_heat_watts) ==
    /\ Idle
    /\ sys.kind = "AHU"
    /\ sys.ncalls < MaxCalls
    /\ SysCalled("run_heating_cycle",
                 [heat |-> heating_q_sensible, hum_type |-> humidifier_type,
                  hum_param |-> humidifier_param, fan |-> fan_heat_watts,
                  flows |-> <<oa_mass_flow, ra_mass_flow>>],
                 oa_mass_flow + ra_mass_flow, FALSE,
                 AHU_run_heating_cycle(heap, sys.states, oa_mass_flow, ra_mass_flow,
                                       heating_q_sensible, humidifier_type,
                                       humidifier_param, fan_heat_watts))

SetEnteringAir(tdb, rh) ==
    /\ Idle
    /\ sys.kind = "FCU"
    /\ sys.ncalls < MaxCalls
    /\ SysCalled("set_inlet", <<tdb, rh>>, 0, TRUE,
                 FCU_set_entering_air(heap, sys.pressure, sys.states, tdb, rh,
                                      "Entering"))

FCURunCooling(mass_flow, cc_adp, cc_bf, fan_heat_watts) ==
    /\ Idle
    /\ sys.kind = "FCU"
    /\ sys.ncalls < MaxCalls
    /\ SysCalled("run_cooling_cycle",
                 [fan |-> fan_heat_watts, adp |-> cc_adp, bf |-> cc_bf,
                  flows |-> <<mass_flow>>],
                 mass_flow, FALSE,
                 FCU_run_cooling_cycle(heap, sys.states, mass_flow, cc_adp, cc_bf,
                                       fan_heat_watts))

FCURunHeating(mass_flow, heating_q_sensible, fan_heat_watts) ==
    /\ Idle
    /\ sys.kind = "FCU"
    /\ sys.ncalls < MaxCalls
    /\ SysCalled("run_heating_cycle",
                 [heat |-> heating_q_sensible, fan |-> fan_heat_watts,
                  flows |-> <<mass_flow>>],
                 mass_flow, FALSE,
                 FCU_run_heating_cycle(heap, sys.states, mass_flow,
                                       heating_q_sensible, fan_heat_watts))

\* a read-only method of the System Model returned `ret'
Queried(op, args, ret) ==
    /\ last' = [op |-> op, args |-> args, ret |-> ret,
                pre |-> heap, pre_states |-> sys.states]
    /\ UNCHANGED <<heap, sys>>

GetProcessLine(start_label, end_label) ==
    /\ Idle
    /\ Queried("get_process_line", <<start_label, end_label>>,
               get_process_line(heap, sys.states, start_label, end_label))

GetAllStates ==
    /\ Idle
    /\ Queried("get_all_states", <<>>, get_all_states(heap, sys.states, SysOrder))

SysReturn ==
    /\ ~ Idle
    /\ last' = NoCall
    /\ UNCHANGED <<heap, sys>>

NextSys ==
    \/ \E oa \in OAConds, ra \in RAConds : SetInletConditions(oa[1], oa[2], ra[1], ra[2])
    \/ \E a \in AHUCoolingArgs :
          AHURunCooling(a.flows[1], a.flows[2], a.coil[1], a.coil[2], a.heat,
                        a.hum[1], a.hum[2], a.fan)
    \/ \E a \in AHUHeatingArgs :
          AHURunHeating(a.flows[1], a.flows[2], a.heat, a.hum[1], a.hum[2], a.fan)
    \/ \E e \in OAConds \cup RAConds : SetEnteringAir(e[1], e[2])
    \/ \E m \in FCUFlows, c \in CoilParams, fan \in SysHeat :
          FCURunCooling(m, c[1], c[2], fan)
    \/ \E m \in FCUFlows, q \in SysHeat, fan \in SysHeat : FCURunHeating(m, q, fan)
    \/ \E l \in LinePairs : GetProcessLine(l[1], l[2])
    \/ GetAllStates
    \/ SysReturn

SpecSys == InitSys /\ [][NextSys]_vars


InletSlots == IF sys.kind = "AHU" THEN {"OA", "RA"} ELSE {"Entering"}
StepIndex(name) == CHOOSE i \in 1..Len(SysOrder) : SysOrder[i] = name

IsRunCall == last.op \in RunOps
\* the run returned False because a Process Operator returned None at a step
StepFailed == IsRunCall /\ last.ret = "False" /\ last.fail \notin {"precondition", "none"}
HumidificationRequested ==
    last.args.hum_type \in {"Steam", "Adiabatic"} /\ last.args.hum_param > 0

\* C1: whenever a run call returns failure because a Process Operator failed
\* at some pipeline step, the slot of that step and of every later step is
\* absent, also when an earlier run on the same model had succeeded.
C1_NoStaleAfterFailure ==
    StepFailed =>
        \A i \in StepIndex(last.fail)..Len(SysOrder) : sys.states[SysOrder[i]] = NoRef

\* C2: a set-inlet call, in any table state, returns success exactly when
\* every inlet AirState it built is valid; after success exactly the inlet
\* slots are present, holding the objects just built, and every downstream
\* slot is absent; after failure every slot is absent.
C2_SetInletResets ==
    last.op = "set_inlet" =>
        /\ last.ret \in {"True", "False"}
        /\ Cardinality(NewObjects) = Cardinality(InletSlots)
        /\ (last.ret = "True") <=> (\A i \in NewObjects : is_valid(heap[i]))
        /\ last.ret = "True" =>
              /\ \A k \in DOMAIN sys.states :
                    IF k \in InletSlots THEN sys.states[k] \in NewObjects
                                        ELSE sys.states[k] = NoRef
              /\ \A k1, k2 \in InletSlots :
                    sys.states[k1] = sys.states[k2] => k1 = k2
        /\ last.ret = "False" => \A k \in DOMAIN sys.states : sys.states[k] = NoRef

\* a successful set-inlet call on a table that held downstream states
C2_Witness ==
    /\ last.op = "set_inlet"
    /\ last.ret = "True"
    /\ \E k \in DOMAIN last.pre_states \ InletSlots : last.pre_states[k] # NoRef
    /\ \A k \in DOMAIN sys.states \ InletSlots : sys.states[k] = NoRef

\* C3: a run returns success only if the most recent set-inlet call succeeded
\* and the total mass flow is above 1e-9; on a fresh model, after a failed
\* set-inlet call, or with total flow at or below 1e-9, it returns failure.
C3_RunNeedsInletAndFlow ==
    IsRunCall =>
        /\ last.ret = "True" => (sys.inlet_ok /\ last.total_flow > EPS)
        /\ (~ sys.inlet_ok \/ last.total_flow <= EPS) => last.ret = "False"

\* inlets are set and valid, and a run with total flow of exactly 1e-9 is
\* refused before the first step
C3_Witness ==
    /\ IsRunCall
    /\ sys.inlet_ok
    /\ last.total_flow = EPS
    /\ last.ret = "False"
    /\ last.fail = "precondition"
    /\ sys.states = last.pre_states

\* C4: after a run that returns success every slot of the table holds a
\* state, and each skipped optional step (reheat or heating <= 0 W, no
\* humidification, fan heat <= 0 W), like the bypassed cooling coil of AHU
\* heating, holds the same object as the slot before it.
C4_SuccessFillsTable ==
    (IsRunCall /\ last.ret = "True") =>
        /\ \A k \in DOMAIN sys.states : sys.states[k] # NoRef
        /\ sys.kind = "AHU" =>
              /\ last.op = "run_heating_cycle" => sys.states.CC_Out = sys.states.MA
              /\ last.args.heat <= 0 => sys.states.HC_Out = sys.states.CC_Out
              /\ ~ HumidificationRequested => sys.states.HUM_Out = sys.states.HC_Out
              /\ last.args.fan <= 0 => sys.states.SA = sys.states.HUM_Out
        /\ sys.kind = "FCU" =>
              /\ (last.op = "run_heating_cycle" /\ last.args.heat <= 0)
                    => sys.states.Coil_Out = sys.states.Entering
              /\ last.args.fan <= 0 => sys.states.Supply = sys.states.Coil_Out

\* an AHU heating run with every optional step skipped: the five slots from
\* MA to SA hold the one object that mix_air created
C4_Witness ==
    /\ sys.kind = "AHU"
    /\ last.op = "run_heating_cycle"
    /\ last.ret = "True"
    /\ last.args.heat = 0 /\ last.args.hum_type = "None" /\ last.args.fan = 0
    /\ sys.states.MA \in NewObjects
    /\ \A k \in {"CC_Out", "HC_Out", "HUM_Out", "SA"} : sys.states[k] = sys.states.MA

\* the slots named in the get_process_line call in progress
SlotA == sys.states[last.args[1]]
SlotB == sys.states[last.args[2]]
BothSlotsValid ==
    /\ SlotA # NoRef
    /\ SlotB # NoRef
    /\ is_valid(heap[SlotA])
    /\ is_valid(heap[SlotB])
Indistinguishable ==
    /\ Val(heap[SlotA].h) - Val(heap[SlotB].h) \in -9..9
    /\ Val(heap[SlotA].w) = Val(heap[SlotB].w)

\* C19 as stated: get_process_line(a,b) returns None when |h_a - h_b| < 10
\* J/kg and |w_a - w_b| < 1e-6 kg/kg, and the two-element sequence
\* [state a, state b] in every other case.
C19_Original ==
    last.op = "get_process_line" =>
        last.ret = IF BothSlotsValid /\ Indistinguishable
                   THEN None
                   ELSE <<SlotA, SlotB>>

\* C19: when both named slots hold valid states, get_process_line(a,b)
\* returns None if |h_a - h_b| < 10 J/kg and |w_a - w_b| < 1e-6 kg/kg and the
\* sequence [state a, state b] otherwise; when a slot is absent or its state
\* is invalid it returns None.  The table and the states are left as they were.
C19_ProcessLine ==
    last.op = "get_process_line" =>
        /\ last.ret = IF BothSlotsValid /\ ~ Indistinguishable
                      THEN <<SlotA, SlotB>>
                      ELSE None
        /\ sys.states = last.pre_states
        /\ heap = last.pre

\* a sensible-heat line: the humidity ratio is the same at both ends, the
\* enthalpy is not, and the two states are returned
C19_Witness ==
    /\ last.op = "get_process_line"
    /\ BothSlotsValid
    /\ Val(heap[SlotA].w) = Val(heap[SlotB].w)
    /\ Val(heap[SlotB].h) - Val(heap[SlotA].h) >= 10
    /\ last.ret = <<SlotA, SlotB>>

\* positions of the canonical order whose slot holds a valid state
ListedPositions ==
    {i \in 1..Len(SysOrder) :
        /\ sys.states[SysOrder[i]] # NoRef
        /\ is_valid(heap[sys.states[SysOrder[i]]])}

\* C20: get_all_states() returns one entry per slot that is present and
\* valid, in the canonical order of the model, omits the absent and invalid
\* slots, and leaves the table and the states as they were.
C20_AllStates ==
    last.op = "get_all_states" =>
        /\ Len(last.ret) = Cardinality(ListedPositions)
        /\ \A i \in ListedPositions :
              last.ret[Cardinality({j \in ListedPositions : j <= i})]
                  = sys.states[SysOrder[i]]
        /\ sys.states = last.pre_states
        /\ heap = last.pre

\* a table with an absent slot and with one object held by two slots, which
\* is listed once for each
C20_Witness ==
    /\ last.op = "get_all_states"
    /\ \E i \in 1..Len(SysOrder) : sys.states[SysOrder[i]] = NoRef
    /\ \E i \in ListedPositions, j \in ListedPositions :
          i < j /\ sys.states[SysOrder[i]] = sys.states[SysOrder[j]]
    /\ Len(last.ret) = Cardinality(ListedPositions)
    /\ Len(last.ret) >= 3

(***************************************************************************)
(* Claims about the adapter and the AirState, checked under SpecAirState.  *)
(***************************************************************************)
IsAdapterCall == last.op = "get_all_properties"
\* the call supplied a wet bulb or dew point above the dry bulb
ExceedsDryBulb(kwargs) ==
    /\ DOMAIN kwargs \in { {"tdb", "twb"}, {"tdb", "tdp"} }
    /\ \A k \in DOMAIN kwargs : kwargs[k] # None
    /\ \E k \in DOMAIN kwargs \ {"tdb"} : Val(kwargs[k]) > Val(kwargs["tdb"])
\* the same keyword arguments with the wet bulb or dew point set to the dry bulb
AtDryBulb(kwargs) == [k \in DOMAIN kwargs |-> kwargs["tdb"]]

\* C21 as stated: every non-failure result of get_all_properties has a
\* value for each of the seven properties and the input pressure, and the
\* values under the two input names are exactly the two values supplied.
C21_Original ==
    (IsAdapterCall /\ last.ret.ok) =>
        /\ \A k \in PropNames : last.ret[k] # None
        /\ last.ret.pressure_pa = last.pressure_pa
        /\ \A k \in DOMAIN last.kwargs : last.ret[k] = last.kwargs[k]

\* C21: every non-failure result of get_all_properties has a value for each
\* of the seven properties and the input pressure; the values under the two
\* input names are the values supplied, except that a twb or tdp supplied
\* above tdb is returned as tdb.
C21_ResultComplete ==
    (IsAdapterCall /\ last.ret.ok) =>
        /\ \A k \in PropNames : last.ret[k] # None
        /\ last.ret.pressure_pa = last.pressure_pa
        /\ \A k \in DOMAIN last.kwargs :
              last.ret[k] = IF ExceedsDryBulb(last.kwargs)
                            THEN last.kwargs["tdb"]
                            ELSE last.kwargs[k]

\* the {h, w} pair solved: both inputs come back with the derived dry bulb
C21_Witness ==
    /\ IsAdapterCall
    /\ DOMAIN last.kwargs = {"h", "w"}
    /\ last.ret.ok
    /\ last.ret.h = last.kwargs["h"]
    /\ last.ret.w = last.kwargs["w"]
    /\ last.ret.tdb # None

\* C22: for the {tdb,twb} and {tdb,tdp} pairs an input with twb > tdb
\* (tdp > tdb) has the same outcome, result or failure, as the input with
\* twb = tdb (tdp = tdb) at the same tdb and pressure.
C22_ClampedToDryBulb ==
    (IsAdapterCall /\ ExceedsDryBulb(last.kwargs)) =>
        last.ret = get_all_properties(last.pressure_pa, AtDryBulb(last.kwargs))

\* a wet bulb above the dry bulb was solved as saturated air at the dry bulb
C22_Witness ==
    /\ IsAdapterCall
    /\ DOMAIN last.kwargs = {"tdb", "twb"}
    /\ ExceedsDryBulb(last.kwargs)
    /\ last.ret.ok
    /\ last.ret.twb = last.kwargs["tdb"]
    /\ last.ret.rh = Some(100)

\* C23: the pressure of an AirState never changes after construction: a
\* constructor call gives the new object one of the pressures it can be
\* given and leaves the others alone, and no update call, successful,
\* failing or with a wrong number of arguments, changes any pressure.
C23_PressureFixed ==
    /\ last.op = "update" =>
          /\ DOMAIN heap = DOMAIN last.pre
          /\ \A i \in DOMAIN heap : heap[i].pressure = last.pre[i].pressure
    /\ last.op = "AirState" =>
          /\ heap[last.self].pressure \in Pressures
          /\ \A i \in DOMAIN last.pre : heap[i].pressure = last.pre[i].pressure
    /\ \A i \in DOMAIN heap : heap[i].pressure \in Pressures

\* a one-property update has just cleared a valid state at the lower
\* pressure, which it still has
C23_Witness ==
    /\ last.op = "update"
    /\ NumProps(last.kwargs) = 1
    /\ is_valid(last.pre[last.self])
    /\ ~ is_valid(heap[last.self])
    /\ last.pre[last.self].pressure = 90000
    /\ heap[last.self].pressure = 90000

\* the solver raises for the two properties supplied
SolverRaises(p, kwargs) ==
    DOMAIN kwargs \in SupportedPairs /\ ~ SolverSucceeds(p, kwargs)

\* C25: when the solver raises during update called with exactly two
\* properties on a valid state, the adapter returns failure, update returns
\* failure and all seven fields of the AirState are absent afterwards.
C25_SolverErrorInvalidates ==
    (/\ last.op = "update"
     /\ NumProps(last.kwargs) = 2
     /\ is_valid(last.pre[last.self])
     /\ SolverRaises(last.pre[last.self].pressure, last.kwargs))
        => /\ get_all_properties(last.pre[last.self].pressure, last.kwargs) = Failure
           /\ last.ret = FALSE
           /\ last.calls = 1
           /\ AllAbsent(heap[last.self])

\* a relative humidity the solver rejects was given to a valid state, whose
\* fields are all absent now
C25_Witness ==
    /\ last.op = "update"
    /\ DOMAIN last.kwargs = {"tdb", "rh"}
    /\ last.kwargs["tdb"] # None
    /\ SolverRaises(last.pre[last.self].pressure, last.kwargs)
    /\ AllPresent(last.pre[last.self])
    /\ last.ret = FALSE
    /\ AllAbsent(heap[last.self])

C27_SteamBalance ==
    (/\ last.op = "steam_humidify"
     /\ last.water > 0
     /\ last.ret # NoRef)
        => LET taken == last.flows[1] * (Val(Out.w) - Val(In1.w))
               heat == last.flows[1] * (Val(Out.h) - Val(In1.h))
           IN  /\ last.flows[1] > EPS
               /\ 0 <= last.water * 1000000 - taken
               /\ last.water * 1000000 - taken < last.flows[1]
               /\ 0 <= last.water * H_STEAM_J_KG - heat
               /\ last.water * H_STEAM_J_KG - heat < last.flows[1]
               /\ Out.pressure = In1.pressure
               /\ last.ret \in NewObjects

\* steam was added to air at the lower pressure: humidity ratio and enthalpy
\* both rose
C27_Witness ==
    /\ last.op = "steam_humidify"
    /\ last.water > 0
    /\ last.ret # NoRef
    /\ In1.pressure = 90000
    /\ Out.pressure = 90000
    /\ Val(Out.w) > Val(In1.w)
    /\ Val(Out.h) > Val(In1.h)

(***************************************************************************)
(* Claims about the runs of the System Models, checked under SpecSys.      *)
(***************************************************************************)
\* the operator result `r', computed from the table as it is now, is the
\* state the slot holds
Produced(r, slot) == r.ret # NoRef /\ slot # NoRef /\ heap[slot] = r.heap[r.ret]

\* an optional sensible-heat step: the slot is computed from `prev' with the
\* flow of the run when q > 0, and is `prev' itself otherwise
HeatedFrom(prev, slot, q) ==
    IF q > 0
    THEN Produced(sensible_heat(heap, prev, q, last.total_flow), slot)
    ELSE slot = prev

SteamRequested == last.args.hum_type = "Steam" /\ last.args.hum_param > 0

AHUPipeline(st) ==
    /\ Produced(mix_air(heap, st.OA, last.args.flows[1], st.RA, last.args.flows[2]),
                st.MA)
    /\ IF last.op = "run_cooling_cycle"
       THEN Produced(cooling_coil_simplified(heap, st.MA, last.total_flow,
                                             last.args.adp, last.args.bf),
                     st.CC_Out)
       ELSE st.CC_Out = st.MA
    /\ HeatedFrom(st.CC_Out, st.HC_Out, last.args.heat)
    /\ IF SteamRequested
       THEN Produced(steam_humidify(heap, st.HC_Out, last.total_flow,
                                    last.args.hum_param),
                     st.HUM_Out)
       ELSE st.HUM_Out = st.HC_Out
    /\ HeatedFrom(st.HUM_Out, st.SA, last.args.fan)

FCUPipeline(st) ==
    /\ IF last.op = "run_cooling_cycle"
       THEN Produced(cooling_coil_simplified(heap, st.Entering, last.total_flow,
                                             last.args.adp, last.args.bf),
                     st.Coil_Out)
       ELSE HeatedFrom(st.Entering, st.Coil_Out, last.args.heat)
    /\ HeatedFrom(st.Coil_Out, st.Supply, last.args.fan)

\* C24: in every successful run each slot is computed from the slot before
\* it in the fixed order (MA from OA and RA with their own flows), by the
\* operator of its step with the total flow, or is that slot itself when
\* the step is optional and not requested; the inlets stay as they were.
C24_Pipeline ==
    (IsRunCall /\ last.ret = "True") =>
        /\ \A k \in InletSlots : sys.states[k] = last.pre_states[k]
        /\ IF sys.kind = "AHU" THEN AHUPipeline(sys.states)
                               ELSE FCUPipeline(sys.states)

\* an AHU cooling run with reheat, steam humidification and fan heat: five
\* new states, one per step
C24_Witness ==
    /\ sys.kind = "AHU"
    /\ last.op = "run_cooling_cycle"
    /\ last.ret = "True"
    /\ last.args.heat > 0
    /\ SteamRequested
    /\ last.args.fan > 0
    /\ Cardinality({sys.states[k] : k \in DOMAIN sys.states}) = 7
    /\ Val(heap[sys.states.HUM_Out].w) > Val(heap[sys.states.HC_Out].w)
    /\ Val(heap[sys.states.SA].w) = Val(heap[sys.states.HUM_Out].w)

\* C28: in every state reachable by set-inlet and run calls on an AHUModel
\* or FCUModel, each slot of the table is absent or holds a valid AirState
\* at the pressure the model was constructed with.
C28_TableValid ==
    sys.kind \in {"AHU", "FCU"} =>
        \A k \in DOMAIN sys.states :
            sys.states[k] # NoRef =>
                /\ sys.states[k] \in DOMAIN heap
                /\ is_valid(heap[sys.states[k]])
                /\ heap[sys.states[k]].pressure = sys.pressure

\* a run on a model at the lower pressure failed at a step after the first:
\* what the table holds is valid and at that pressure
C28_Witness ==
    /\ StepFailed
    /\ sys.pressure = 90000
    /\ \E k \in DOMAIN sys.states : sys.states[k] = NoRef
    /\ \E k \in DOMAIN sys.states \ InletSlots :
          /\ sys.states[k] # NoRef
          /\ sys.states[k] \in NewObjects
          /\ is_valid(heap[sys.states[k]])
          /\ heap[sys.states[k]].pressure = 90000

\* C29: for every humidifier_type and every numeric parameter combination
\* the AHU runs end by returning True or False, never by raising an error,
\* and when humidifier_type is not handled by the steam step, HUM_Out is a
\* pass-through of HC_Out or the run returns False.
C29_RunsReturnBool ==
    (IsRunCall /\ sys.kind = "AHU") =>
        /\ last.ret \in {"True", "False"}
        /\ last.args.hum_type # "Steam" =>
              \/ last.ret = "False"
              \/ sys.states.HUM_Out = sys.states.HC_Out

\* the run was refused because an inlet slot was absent or the total flow
\* was at or below 1e-9
PreconditionFailed ==
    /\ IsRunCall
    /\ \/ \E k \in InletSlots : last.pre_states[k] = NoRef
       \/ last.total_flow <= EPS

\* C30: a run call that fails its precondition check (inlets not set, or
\* total mass flow <= 1e-9) returns False and leaves every slot of the table
\* holding what it held before the call; no state is created.
C30_RefusedRunKeepsTable ==
    PreconditionFailed =>
        /\ last.ret = "False"
        /\ sys.states = last.pre_states
        /\ heap = last.pre
        /\ last.calls = 0

\* a run with a negligible flow was refused on a table an earlier run had
\* filled: the results of that run are still there
C30_Witness ==
    /\ PreconditionFailed
    /\ last.total_flow <= EPS
    /\ \A k \in DOMAIN sys.states : sys.states[k] # NoRef
    /\ sys.states = last.pre_states
    /\ last.ret = "False"

=============================================================================
